---- MODULE Spec2Model ----
(***************************************************************************)
(* The flying-item scheduler of the hero scene (TakaScene / ItemAnimator). *)
(*                                                                         *)
(* The source holds two near-duplicate scenes; both are modelled and the   *)
(* variable `variant` says which one a behaviour runs:                     *)
(*   "canonical"  part_000 lines 183-391 (capacity test 8, interval 1.8)   *)
(*   "dense"      part_000 lines   1-181 (capacity test 12, interval 1.2)  *)
(*                                                                         *)
(* Units (all quantities are integers):                                    *)
(*   time, speed, scaleVar        tenths      (1.8 s = 18, speed 1.5 = 15) *)
(*   x, blend, initialY/Z         hundredths  (x = -9 is -900, blend 1=100)*)
(*   takaScale, compScale         thousandths (1 = 1000, 0.001 = 1)        *)
(*   rotation, rotationSpeed      1e-4 rad                                 *)
(* position.y / position.z (sine wobble) are not modelled.                 *)
(***************************************************************************)
EXTENDS Integers, Sequences, FiniteSets, TLC

VARIABLES variant,        \* which of the two scenes runs
          schedule,       \* frame durations of this session, cycled
          schedIdx,       \* index of the next frame's duration in schedule
          phase,          \* "idle" | "frame" | "items" | "commit"
          clock,          \* state.clock.elapsedTime
          lastSpawnTime,  \* lastSpawnTime.current
          nextId,         \* nextId.current
          rng,            \* state of Math.random()
          items,          \* the useState array of FlyingItem
          anim,           \* mounted ItemAnimator instances, keyed by item id
          queue,          \* animator callbacks still to run in this frame
          spawned,        \* history: every id ever assigned, in order
          evicted,        \* history: every id ever removed from items
          lateMounts      \* history: animators mounted before their handle

vars == <<variant, schedule, schedIdx, phase, clock, lastSpawnTime, nextId,
          rng, items, anim, queue, spawned, evicted, lateMounts>>

(* ------------------------------ bounds -------------------------------- *)
MaxTime == 225
MaxSeed == 2
RandMod == 17
MaxLateMounts == 1
MaxMissedTicks == 1

Variants == {"canonical", "dense"}
Schedules == { <<3>>, <<10>>, <<40>>, <<3, 10>>, <<3, 40, 10>> }

(* ----------------------- constants of the scenes ---------------------- *)
SpawnInterval(v) == IF v = "canonical" THEN 18 ELSE 12
Capacity(v) == IF v = "canonical" THEN 8 ELSE 12
StartX(v) == IF v = "canonical" THEN -900 ELSE -1000
COMPONENT_TYPES(v) ==
    IF v = "canonical" THEN <<"gpu", "ram", "motherboard">>
    ELSE <<"taka", "taka", "gpu", "ram", "cpu", "motherboard">>

(* ---------------------------- Math.random ----------------------------- *)
\* Math.random() is a seeded generator; a call returns r / RandMod in [0,1)
\* and advances the state.
NextRand(r) == (r + 5) % RandMod

RECURSIVE RandAt(_, _)
RandAt(r, k) == IF k = 0 THEN r ELSE RandAt(NextRand(r), k - 1)

\* Math.floor(Math.random() * n) for the draw r
FloorRand(r, n) == (r * n) \div RandMod

(* ----------------------------- spawnItem ------------------------------ *)
\* the type pick without the offset that skips the two "taka" entries
NewItem_AnyType(v, id, r) ==
    IF v = "canonical" THEN
        [ id        |-> id,
          initialY  |-> FloorRand(RandAt(r, 0), 300) - 150,
          initialZ  |-> FloorRand(RandAt(r, 1), 300) - 150,
          speed     |-> 15 + FloorRand(RandAt(r, 2), 5),
          type      |-> COMPONENT_TYPES(v)[FloorRand(RandAt(r, 3),
                                           Len(COMPONENT_TYPES(v))) + 1],
          rotationSpeed |-> [ x |-> FloorRand(RandAt(r, 4), 200) - 100,
                              y |-> FloorRand(RandAt(r, 5), 200) - 100,
                              z |-> FloorRand(RandAt(r, 6), 200) - 100 ],
          scaleVar  |-> 10 ]
    ELSE
        [ id        |-> id,
          initialY  |-> FloorRand(RandAt(r, 0), 400) - 200,
          initialZ  |-> FloorRand(RandAt(r, 1), 400) - 200,
          speed     |-> 10 + FloorRand(RandAt(r, 2), 5),
          type      |-> COMPONENT_TYPES(v)[FloorRand(RandAt(r, 3),
                                           Len(COMPONENT_TYPES(v))) + 1],
          rotationSpeed |-> [ x |-> FloorRand(RandAt(r, 4), 200) - 100,
                              y |-> FloorRand(RandAt(r, 5), 200) - 100,
                              z |-> FloorRand(RandAt(r, 6), 200) - 100 ],
          scaleVar  |-> 8 + FloorRand(RandAt(r, 7), 4) ]

\* The object literal appended by spawnItem; its Math.random() calls are
\* evaluated in source order starting from generator state r.
NewItem(v, id, r) ==
    IF v = "canonical" THEN
        [ id        |-> id,
          initialY  |-> FloorRand(RandAt(r, 0), 300) - 150,
          initialZ  |-> FloorRand(RandAt(r, 1), 300) - 150,
          speed     |-> 15 + FloorRand(RandAt(r, 2), 5),
          type      |-> COMPONENT_TYPES(v)[FloorRand(RandAt(r, 3),
                                           Len(COMPONENT_TYPES(v))) + 1],
          rotationSpeed |-> [ x |-> FloorRand(RandAt(r, 4), 200) - 100,
                              y |-> FloorRand(RandAt(r, 5), 200) - 100,
                              z |-> FloorRand(RandAt(r, 6), 200) - 100 ],
          scaleVar  |-> 10 ]
    ELSE
        [ id        |-> id,
          initialY  |-> FloorRand(RandAt(r, 0), 400) - 200,
          initialZ  |-> FloorRand(RandAt(r, 1), 400) - 200,
          speed     |-> 10 + FloorRand(RandAt(r, 2), 5),
          type      |-> COMPONENT_TYPES(v)[FloorRand(RandAt(r, 3),
                                           Len(COMPONENT_TYPES(v)) - 2) + 2 + 1],
          rotationSpeed |-> [ x |-> FloorRand(RandAt(r, 4), 200) - 100,
                              y |-> FloorRand(RandAt(r, 5), 200) - 100,
                              z |-> FloorRand(RandAt(r, 6), 200) - 100 ],
          scaleVar  |-> 8 + FloorRand(RandAt(r, 7), 4) ]

\* Number of Math.random() calls made by one spawn.
DrawsPerSpawn(v) == IF v = "canonical" THEN 7 ELSE 8

\* spawnItem with the id taken from the array length instead of nextId
spawnItem_IdFromLength(prev, v, id, r) ==
    LET active == prev
        kept   == IF Len(active) > Capacity(v) THEN Tail(active) ELSE active
    IN  Append(kept, NewItem(v, Len(prev), r))

\* spawnItem shifting whenever the array is not empty
spawnItem_ShiftAlways(prev, v, id, r) ==
    LET active == prev
        kept   == IF Len(active) > 0 THEN Tail(active) ELSE active
    IN  Append(kept, NewItem(v, id, r))

\* spawnItem with pop() in place of shift(): the newest item is dropped
spawnItem_EvictNewest(prev, v, id, r) ==
    LET active == prev
        kept   == IF Len(active) > Capacity(v)
                  THEN SubSeq(active, 1, Len(active) - 1) ELSE active
    IN  Append(kept, NewItem(v, id, r))

\* spawnItem without the shift
spawnItem_NoEvict(prev, v, id, r) ==
    Append(prev, NewItem(v, id, r))

\* The setItems updater: filter(() => true), shift when over the test
\* constant, then append the new item.
spawnItem(prev, v, id, r) ==
    LET active == prev
        kept   == IF Len(active) > Capacity(v) THEN Tail(active) ELSE active
    IN  Append(kept, NewItem(v, id, r))

\* the rate check dropped: a spawn on every frame
ShouldSpawn_EveryFrame(now, last, v) == TRUE

\* The rate check of TakaScene's useFrame.
ShouldSpawn(now, last, v) == now - last > SpawnInterval(v)

(* ---------------------------- ItemAnimator ---------------------------- *)
Ids(s) == { s[i].id : i \in 1..Len(s) }

\* The ids of S in increasing order (the order in which the animators
\* subscribed): position i holds the id with i - 1 smaller ids in S.
SortedSeq(S) ==
    [i \in 1..Cardinality(S) |->
        CHOOSE a \in S : Cardinality({ b \in S : b < a }) = i - 1]

ItemOf(s, id) == s[CHOOSE i \in 1..Len(s) : s[i].id = id]

\* A freshly mounted ItemAnimator: refs and the two child groups as the JSX
\* creates them.  startTime is << >> for null and <<t>> once captured;
\* group is groupRef.current # null; missed counts the callback runs that
\* returned at the groupRef guard.
MountAnimator(v, data) ==
    [ data        |-> data,
      startTime   |-> << >>,
      group       |-> TRUE,
      ticked      |-> FALSE,
      missed      |-> 0,
      timeAlive   |-> 0,
      x           |-> 0,
      rotation    |-> [x |-> 0, y |-> 0, z |-> 0],
      blend       |-> 0,
      transformed |-> FALSE,
      takaScale   |-> 1000,
      takaVisible |-> TRUE,
      compScale   |-> IF v = "canonical" THEN 1 ELSE 1000,
      compVisible |-> (v = "canonical") ]

\* the null check dropped: the birth time is overwritten on every tick
CaptureStart_Always(startTime, now) == <<now>>

\* startTime.current after the null check at the top of the callback
CaptureStart(startTime, now) ==
    IF startTime = << >> THEN <<now>> ELSE startTime

\* the start coordinate of the other scene pasted in
XOf_StartAtMinus10(v, timeAlive, speed) == -1000 + timeAlive * speed

\* x = start + timeAlive * speed
XOf(v, timeAlive, speed) == StartX(v) + timeAlive * speed

\* the interpolation without its two outer branches
BlendOf_NoClamp(x) == x + 50

\* canonical scene: blend factor, beamCenter 0, transitionWidth 1.0
BlendOf(x) ==
    LET beamCenter == 0
        transitionWidth == 100
    IN  IF x < beamCenter - transitionWidth \div 2 THEN 0
        ELSE IF x > beamCenter + transitionWidth \div 2 THEN 100
        ELSE ((x - (beamCenter - transitionWidth \div 2)) * 100)
                 \div transitionWidth

\* the epsilon substitution dropped
ClampScale_None(s) == s

\* canonical scene: scale > 0 ? scale : 0.001
ClampScale(s) == IF s > 0 THEN s ELSE 1

Min(a, b) == IF a < b THEN a ELSE b
Max(a, b) == IF a > b THEN a ELSE b

Spin(rot, rs) == [x |-> rot.x + rs.x, y |-> rot.y + rs.y, z |-> rot.z + rs.z]

\* useFrame callback of the canonical ItemAnimator
AnimateCanonical(a, now) ==
    LET st == CaptureStart(a.startTime, now)
    IN  IF ~a.group THEN [a EXCEPT !.startTime = st,
                                   !.missed    = a.missed + 1]
        ELSE
          LET timeAlive == now - st[1]
              x         == XOf("canonical", timeAlive, a.data.speed)
              blend     == BlendOf(x)
              takaScale == 1000 - blend * 10
              compScale == blend * 10
          IN  [a EXCEPT !.startTime = st,
                        !.ticked    = TRUE,
                        !.timeAlive = timeAlive,
                        !.x         = x,
                        !.rotation  = Spin(a.rotation, a.data.rotationSpeed),
                        !.blend     = blend,
                        !.takaScale = ClampScale(takaScale),
                        !.compScale = ClampScale(compScale)]

\* useFrame callback of the dense-stream ItemAnimator
AnimateDense(a, now) ==
    LET st == CaptureStart(a.startTime, now)
    IN  IF ~a.group THEN [a EXCEPT !.startTime = st,
                                   !.missed    = a.missed + 1]
        ELSE
          LET timeAlive == now - st[1]
              x         == XOf("dense", timeAlive, a.data.speed)
              moved     == [a EXCEPT !.startTime = st,
                                     !.ticked    = TRUE,
                                     !.timeAlive = timeAlive,
                                     !.x         = x,
                                     !.rotation  = Spin(a.rotation,
                                                        a.data.rotationSpeed),
                                     !.transformed = (a.transformed \/ x > 0)]
          IN  IF x < -50 THEN
                  [moved EXCEPT !.takaVisible = TRUE,
                                !.compVisible = FALSE,
                                !.takaScale   = 1000]
              ELSE IF x > 50 THEN
                  LET scaleUp == Min(100, (x - 50) * 2)
                  IN  [moved EXCEPT !.takaVisible = FALSE,
                                    !.compVisible = TRUE,
                                    !.compScale   = scaleUp * a.data.scaleVar]
              ELSE
                  LET t         == x + 50
                      takaScale == Max(0, 100 - t * 2) * 10
                      shrunk    == [moved EXCEPT !.takaScale   = takaScale,
                                                 !.takaVisible = (takaScale > 10)]
                  IN  IF x > 0 THEN
                          LET compScale == Min(100, x * 2)
                          IN  [shrunk EXCEPT
                                  !.compScale   = compScale * a.data.scaleVar,
                                  !.compVisible = TRUE]
                      ELSE [shrunk EXCEPT !.compVisible = FALSE]

Animate(v, a, now) ==
    IF v = "canonical" THEN AnimateCanonical(a, now) ELSE AnimateDense(a, now)

(* ------------------------------ actions ------------------------------- *)
Init ==
    /\ variant \in Variants
    /\ schedule \in Schedules
    /\ schedIdx = 1
    /\ phase = "idle"
    /\ clock = 0
    /\ lastSpawnTime = 0
    /\ nextId = 0
    /\ rng \in 0..MaxSeed
    /\ items = << >>
    /\ anim = << >>
    /\ queue = << >>
    /\ spawned = << >>
    /\ evicted = {}
    /\ lateMounts = 0

\* The render loop starts a frame: the shared clock advances.  A handle
\* that is still missing is attached after at most MaxMissedTicks frames.
BeginFrame ==
    /\ phase = "idle"
    /\ clock + schedule[schedIdx] <= MaxTime
    /\ \A id \in DOMAIN anim :
          ~anim[id].group => anim[id].missed < MaxMissedTicks
    /\ clock' = clock + schedule[schedIdx]
    /\ schedIdx' = (schedIdx % Len(schedule)) + 1
    /\ phase' = "frame"
    /\ UNCHANGED <<variant, schedule, lastSpawnTime, nextId, rng, items, anim,
                   queue, spawned, evicted, lateMounts>>

\* Where the frame goes once the callbacks in q have run.
PhaseAfter(q, its, an) ==
    IF q # << >> THEN "items"
    ELSE IF DOMAIN an = Ids(its) THEN "idle" ELSE "commit"

\* TakaScene's useFrame callback (with spawnItem and its setItems updater).
SceneFrame ==
    /\ phase = "frame"
    /\ IF ShouldSpawn(clock, lastSpawnTime, variant)
       THEN /\ items' = spawnItem(items, variant, nextId, rng)
            /\ nextId' = nextId + 1
            /\ rng' = RandAt(rng, DrawsPerSpawn(variant))
            /\ lastSpawnTime' = clock
            /\ spawned' = Append(spawned, items'[Len(items')].id)
            /\ evicted' = evicted \cup (Ids(items) \ Ids(items'))
       ELSE UNCHANGED <<items, nextId, rng, lastSpawnTime, spawned, evicted>>
    /\ queue' = SortedSeq(DOMAIN anim)
    /\ phase' = PhaseAfter(queue', items', anim)
    /\ UNCHANGED <<variant, schedule, schedIdx, clock, anim, lateMounts>>

\* The useFrame callback of the next mounted ItemAnimator.
ItemFrame ==
    /\ phase = "items"
    /\ queue # << >>
    /\ anim' = [anim EXCEPT ![Head(queue)] =
                                Animate(variant, anim[Head(queue)], clock)]
    /\ queue' = Tail(queue)
    /\ phase' = PhaseAfter(queue', items, anim')
    /\ UNCHANGED <<variant, schedule, schedIdx, clock, lastSpawnTime, nextId,
                   rng, items, spawned, evicted, lateMounts>>

\* items.map keyed by id without a stable key: every commit remounts
Reconcile_Remount(an, its, v, g) ==
    [id \in Ids(its) |->
        [MountAnimator(v, ItemOf(its, id)) EXCEPT !.group = g]]

\* items.map keyed by id: the animators of surviving ids are kept, the
\* others are unmounted and the new ones mounted; g says whether the new
\* animator's groupRef is attached by the time its callback can run.
Reconcile(an, its, v, g) ==
    [id \in Ids(its) |->
        IF id \in DOMAIN an THEN an[id]
        ELSE [MountAnimator(v, ItemOf(its, id)) EXCEPT !.group = g]]

\* React commits the new items array.
Render ==
    /\ phase = "commit"
    /\ \E g \in {TRUE} \cup (IF lateMounts < MaxLateMounts
                              THEN {FALSE} ELSE {}) :
          /\ anim' = Reconcile(anim, items, variant, g)
          /\ lateMounts' = IF g THEN lateMounts ELSE lateMounts + 1
    /\ phase' = "idle"
    /\ UNCHANGED <<variant, schedule, schedIdx, clock, lastSpawnTime, nextId,
                   rng, items, queue, spawned, evicted>>

\* The render handle of a mounted animator becomes available between frames.
AttachRef ==
    /\ phase = "idle"
    /\ \E id \in DOMAIN anim :
          /\ ~anim[id].group
          /\ anim' = [anim EXCEPT ![id].group = TRUE]
    /\ UNCHANGED <<variant, schedule, schedIdx, phase, clock, lastSpawnTime,
                   nextId, rng, items, queue, spawned, evicted, lateMounts>>

Next == BeginFrame \/ SceneFrame \/ ItemFrame \/ Render \/ AttachRef

Spec == Init /\ [][Next]_vars

\* Continuous ticking: a session of short frames in which the render loop
\* never stops scheduling frames, callbacks and commits.
InitLive == Init /\ schedule = <<3>> /\ rng = 0

SpecLive == InitLive /\ [][Next]_vars /\ WF_vars(Next)

(* ------------------------------ claims -------------------------------- *)
SameIds == DOMAIN anim \cap DOMAIN anim'
ZoneLeft == -50
ZoneRight == 50

\* C1: every spawn leaves min(previous size + 1, K) items and the collection
\* never holds more than K items, K being the constant spawnItem compares
\* against (8 canonical, 12 dense).
C1_SizeBound ==
    /\ [](Len(items) <= Capacity(variant))
    /\ [][Len(spawned') # Len(spawned) =>
            Len(items') = Min(Len(items) + 1, Capacity(variant))]_vars

\* C2: eviction is FIFO: once ids 0..K have been spawned (K+1 spawns) id 0 is
\* no longer in the collection, and an evicted item is always the oldest one.
C2_Fifo ==
    /\ [](Len(spawned) = Capacity(variant) + 1 => 0 \notin Ids(items))
    /\ [][Ids(items) \ Ids(items') # {} =>
            Ids(items) \ Ids(items') = {Head(items).id}]_vars

\* C3: canonical scene (K = 8, interval 1.8): after 10 * 1.8 time units of
\* ticking exactly 8 items are active, with ids 2..9.
C3_Scenario ==
    (variant = "canonical" /\ clock = 180 /\ phase = "idle")
        => (Len(items) = 8 /\ Ids(items) = 2..9)

\* C4: ids are unique for the session: assigned ids strictly increase, the
\* active ids are pairwise distinct, and no evicted id is active again.
C4_UniqueIds ==
    /\ \A i, j \in 1..Len(spawned) : i < j => spawned[i] < spawned[j]
    /\ \A i, j \in 1..Len(items) : i # j => items[i].id # items[j].id
    /\ Ids(items) \subseteq { spawned[i] : i \in 1..Len(spawned) }
    /\ evicted \cap Ids(items) = {}

C4_Witness ==
    /\ evicted # {}
    /\ Len(spawned) >= Capacity(variant) + 3
    /\ Len(items) > 1

\* C5: a frame spawns only when more than the spawn interval has passed since
\* lastSpawnTime (initially 0); it then creates exactly one item and records
\* the clock as lastSpawnTime; one frame never spawns twice, however late it
\* is; nothing exists before the first interval has passed.
C5_Step ==
    /\ IF phase = "frame" /\ clock - lastSpawnTime > SpawnInterval(variant)
       THEN /\ Len(spawned') = Len(spawned) + 1
            /\ nextId' = nextId + 1
            /\ Ids(items') \ Ids(items) = {nextId}
            /\ lastSpawnTime' = clock
       ELSE UNCHANGED <<items, spawned, nextId, lastSpawnTime>>
    /\ phase' = "frame" => (phase # "frame" /\ clock' > clock)

C5_SpawnRule ==
    /\ [][C5_Step]_vars
    /\ [](clock <= SpawnInterval(variant) => items = << >>)

C5_Witness ==
    /\ phase # "frame"
    /\ clock = lastSpawnTime
    /\ clock > 2 * SpawnInterval(variant)
    /\ Len(spawned) = 1
    /\ Len(items) = 1

\* C6: the blend factor computed for an item is always within [0,1], and
\* between two ticks of one item it does not decrease when x does not.
C6_Blend ==
    /\ [](\A id \in DOMAIN anim : anim[id].blend >= 0 /\ anim[id].blend <= 100)
    /\ [][\A id \in SameIds :
            (anim[id].ticked /\ anim[id].x <= anim'[id].x)
                => anim[id].blend <= anim'[id].blend]_vars

C6_Witness ==
    \E id \in DOMAIN anim :
        /\ anim[id].ticked
        /\ anim[id].blend > 0
        /\ anim[id].blend < 100

\* C7: canonical scene: x = -9 + timeAlive * speed, and the blend factor is 0
\* left of [-0.5, 0.5], 1 right of it and (x + 0.5) / 1.0 inside; an item
\* of speed 1.5 is at x = 0.0 with blend 0.5 when timeAlive = 6.0.
C7_BlendFunction ==
    variant = "canonical" =>
        \A id \in DOMAIN anim :
            anim[id].ticked =>
                /\ anim[id].x = -900 + anim[id].timeAlive * anim[id].data.speed
                /\ anim[id].x < ZoneLeft => anim[id].blend = 0
                /\ anim[id].x > ZoneRight => anim[id].blend = 100
                /\ (anim[id].x >= ZoneLeft /\ anim[id].x <= ZoneRight)
                       => anim[id].blend = anim[id].x - ZoneLeft
                /\ (anim[id].data.speed = 15 /\ anim[id].timeAlive = 60)
                       => (anim[id].x = 0 /\ anim[id].blend = 50)

C7_Witness ==
    /\ variant = "canonical"
    /\ \E id \in DOMAIN anim :
          /\ anim[id].ticked
          /\ anim[id].data.speed = 15
          /\ anim[id].timeAlive = 60
          /\ anim[id].blend = 50

\* C8 (as stated): token scale is 1 - blend and component scale is
\* blend * scaleJitter, epsilon substituted when non-positive, so both scales
\* are strictly positive in every state; left of the zone the component is at
\* the clamped minimum, right of the zone the token is.
C8_Original ==
    \A id \in DOMAIN anim :
        /\ anim[id].takaScale > 0
        /\ anim[id].compScale > 0
        /\ anim[id].ticked =>
             /\ anim[id].x < ZoneLeft => anim[id].compScale = 1
             /\ anim[id].x > ZoneRight => anim[id].takaScale = 1
             /\ variant = "canonical" =>
                  /\ anim[id].takaScale =
                        (IF 1000 - 10 * anim[id].blend > 0
                         THEN 1000 - 10 * anim[id].blend ELSE 1)
                  /\ anim[id].compScale =
                        (IF anim[id].blend * anim[id].data.scaleVar > 0
                         THEN anim[id].blend * anim[id].data.scaleVar ELSE 1)

\* C8 (amended): the statement holds of the canonical scene, which has no
\* scaleJitter (factor 1).  The dense-stream scene clamps nothing: its scales
\* are only non-negative, the token scale is 0 only while the token is
\* hidden, and the representation that is not in use is hidden through its
\* visible flag (component left of the zone, token right of it).
C8_Scales ==
    \A id \in DOMAIN anim :
        IF variant = "canonical" THEN
            /\ anim[id].takaScale > 0
            /\ anim[id].compScale > 0
            /\ anim[id].data.scaleVar = 10
            /\ anim[id].ticked =>
                 /\ anim[id].x < ZoneLeft => anim[id].compScale = 1
                 /\ anim[id].x > ZoneRight => anim[id].takaScale = 1
                 /\ anim[id].takaScale =
                       (IF 1000 - 10 * anim[id].blend > 0
                        THEN 1000 - 10 * anim[id].blend ELSE 1)
                 /\ anim[id].compScale =
                       (IF 10 * anim[id].blend > 0
                        THEN 10 * anim[id].blend ELSE 1)
        ELSE
            /\ anim[id].takaScale >= 0
            /\ anim[id].compScale > 0
            /\ anim[id].takaScale = 0 => ~anim[id].takaVisible
            /\ anim[id].ticked =>
                 /\ anim[id].x < ZoneLeft => ~anim[id].compVisible
                 /\ anim[id].x > ZoneRight => ~anim[id].takaVisible

C8_Witness ==
    /\ variant = "canonical"
    /\ \E id \in DOMAIN anim :
          /\ anim[id].ticked
          /\ anim[id].x > ZoneRight
          /\ anim[id].takaScale = 1
          /\ anim[id].compScale = 1000

\* C9: before the zone an item is fully a value token (token at full scale,
\* component not shown); after the zone it is fully a component (component
\* at its full materialized scale, token not shown), and right of the zone
\* the component scale of an item never decreases.
C9_FullForms ==
    /\ [](\A id \in DOMAIN anim :
            anim[id].ticked =>
              /\ anim[id].x < ZoneLeft =>
                   /\ anim[id].takaScale = 1000
                   /\ anim[id].takaVisible
                   /\ (anim[id].compScale = 1 \/ ~anim[id].compVisible)
              /\ anim[id].x > ZoneRight =>
                   /\ anim[id].compScale = 100 * anim[id].data.scaleVar
                   /\ anim[id].compVisible
                   /\ (anim[id].takaScale = 1 \/ ~anim[id].takaVisible))
    /\ [][\A id \in SameIds :
            (anim[id].ticked /\ anim'[id].x > ZoneRight
                /\ anim[id].x >= ZoneLeft /\ anim[id].x <= anim'[id].x)
               => anim'[id].compScale >= anim[id].compScale]_vars

\* C10: an animator's birth time is unset until its first tick, is set on
\* that tick to the shared clock and never changes afterwards; the elapsed
\* lifetime is 0 on that tick and never decreases later.
C10_Step ==
    /\ \A id \in SameIds :
          /\ anim[id].startTime # << >>
                => anim'[id].startTime = anim[id].startTime
          /\ (anim[id].startTime = << >> /\ anim'[id].startTime # << >>)
                => /\ phase = "items"
                   /\ Head(queue) = id
                   /\ anim'[id].startTime = <<clock>>
                   /\ anim'[id].timeAlive = 0
          /\ anim'[id].timeAlive >= anim[id].timeAlive
    /\ \A id \in DOMAIN anim' \ DOMAIN anim : anim'[id].startTime = << >>

C10_BirthTime ==
    /\ [][C10_Step]_vars
    /\ [](\A id \in DOMAIN anim :
            /\ anim[id].startTime = << >>
                   <=> (~anim[id].ticked /\ anim[id].missed = 0)
            /\ anim[id].ticked =>
                 /\ anim[id].timeAlive >= 0
                 /\ anim[id].timeAlive <= clock - anim[id].startTime[1])

C10_Witness ==
    \E id \in DOMAIN anim :
        /\ anim[id].ticked
        /\ anim[id].timeAlive > 0
        /\ anim[id].startTime[1] > 0
        /\ anim[id].timeAlive = clock - anim[id].startTime[1]

\* C11: a tick that finds the render handle missing is a no-op: it leaves the
\* animator's birth time, position, rotation and scales unchanged, and a
\* tick that finds the handle animates the item.
C11_Step ==
    (phase = "items" /\ queue # << >>) =>
        LET id == Head(queue)
        IN  IF ~anim[id].group
            THEN /\ anim'[id].startTime = anim[id].startTime
                 /\ anim'[id].x = anim[id].x
                 /\ anim'[id].rotation = anim[id].rotation
                 /\ anim'[id].takaScale = anim[id].takaScale
                 /\ anim'[id].compScale = anim[id].compScale
                 /\ anim'[id].takaVisible = anim[id].takaVisible
                 /\ anim'[id].compVisible = anim[id].compVisible
            ELSE /\ anim'[id].ticked
                 /\ anim'[id].x = StartX(variant)
                        + (clock - anim'[id].startTime[1]) * anim[id].data.speed

C11_MissingHandleNoOp == [][C11_Step]_vars

\* C12: the collection changes only on a spawn tick; a spawn tick appends
\* exactly one item and removes at most one, the oldest, and only because of
\* the item count; nothing is removed for its position or lifetime.
C12_Step ==
    IF phase = "frame" /\ clock - lastSpawnTime > SpawnInterval(variant)
    THEN /\ Len(items') >= 1
         /\ items'[Len(items')].id \notin Ids(items)
         /\ LET kept == SubSeq(items', 1, Len(items') - 1)
            IN  IF Len(items) > Capacity(variant)
                THEN kept = Tail(items)
                ELSE kept = items
    ELSE items' = items

HardwareKinds == {"gpu", "ram", "cpu", "motherboard"}

C13_TargetVariant ==
    /\ [](/\ \A i \in 1..Len(items) : items[i].type \in HardwareKinds
          /\ \A id \in DOMAIN anim :
                /\ anim[id].data.type \in HardwareKinds
                /\ id \in Ids(items) => anim[id].data = ItemOf(items, id))
    /\ [][/\ \A id \in Ids(items) \cap Ids(items') :
                ItemOf(items', id).type = ItemOf(items, id).type
          /\ \A id \in SameIds :
                anim'[id].data.type = anim[id].data.type]_vars

C13_Witness ==
    /\ variant = "dense"
    /\ evicted # {}
    /\ Cardinality({ items[i].type : i \in 1..Len(items) }) >= 3
    /\ \E id \in DOMAIN anim : anim[id].ticked /\ anim[id].x > 0

\* C14: between frames the mounted animators are exactly those of the active
\* ids, so an evicted item's animator is gone; the birth time of an animator
\* is never reset and its rotation changes only by its own tick.
C14_Step ==
    \A id \in SameIds :
        /\ anim[id].startTime # << >>
              => anim'[id].startTime = anim[id].startTime
        /\ anim'[id].data = anim[id].data
        /\ \/ anim'[id].rotation = anim[id].rotation
           \/ /\ phase = "items"
              /\ Head(queue) = id
              /\ anim'[id].rotation.x
                    = anim[id].rotation.x + anim[id].data.rotationSpeed.x
              /\ anim'[id].rotation.y
                    = anim[id].rotation.y + anim[id].data.rotationSpeed.y
              /\ anim'[id].rotation.z
                    = anim[id].rotation.z + anim[id].data.rotationSpeed.z

C14_AnimatorKeyed ==
    /\ [](phase = "idle" =>
            /\ DOMAIN anim = Ids(items)
            /\ evicted \cap DOMAIN anim = {})
    /\ [][C14_Step]_vars

C14_Witness ==
    /\ phase = "idle"
    /\ Cardinality(evicted) >= 2
    /\ \E id \in DOMAIN anim :
          /\ anim[id].ticked
          /\ anim[id].startTime[1] < lastSpawnTime
          /\ anim[id].rotation # [x |-> 0, y |-> 0, z |-> 0]

\* C15: the collection is ordered oldest first with strictly increasing ids,
\* and its ids are exactly the last Len(items) ids assigned.
C15_OrderedContiguous ==
    /\ Len(items) <= Len(spawned)
    /\ \A i \in 1..Len(items) :
          /\ items[i].id = spawned[Len(spawned) - Len(items) + i]
          /\ items[i].id = nextId - Len(items) + i - 1
    /\ \A i, j \in 1..Len(items) : i < j => items[i].id < items[j].id

C15_Witness ==
    /\ evicted # {}
    /\ Len(items) = Capacity(variant) + 1
    /\ items[1].id > 0
    /\ items[Len(items)].id = nextId - 1

\* C16: while the clock keeps advancing a further spawn always follows, and
\* every active item is evicted later, after at most Capacity + 1 later
\* spawns.  (The clock of the model stops at MaxTime, so "keeps advancing"
\* is: MaxTime still leaves room for the frames needed; only the first ids
\* are spawned early enough for that.)
LongestFrame(s) == CHOOSE d \in { s[i] : i \in 1..Len(s) } :
                       \A i \in 1..Len(s) : s[i] <= d

SpawnPeriod == SpawnInterval(variant) + LongestFrame(schedule)

JustSpawned == phase \in {"items", "commit"} /\ lastSpawnTime = clock

C16_Liveness ==
    /\ (phase = "idle" /\ clock + SpawnPeriod <= MaxTime) ~> JustSpawned
    /\ \A id \in 0..2 :
          (/\ id \in Ids(items)
           /\ clock + (Capacity(variant) + 1) * SpawnPeriod <= MaxTime)
             ~> (id \in evicted /\ id \notin Ids(items))
    /\ [](\A id \in Ids(items) : Len(spawned) - id <= Capacity(variant) + 1)

C16_Witness ==
    /\ 0 \in evicted
    /\ 0 \notin Ids(items)
    /\ Len(spawned) = Capacity(variant) + 2
    /\ JustSpawned

====
